---- MODULE Spec2Model ----
(***************************************************************************)
(* ProcessReader (snapshot/fuchsia/process_reader.cc): the lifecycle of    *)
(* the reader and the discovery of the target's loaded modules by walking  *)
(* the loader's link_map chain through fallible remote reads.              *)
(***************************************************************************)
EXTENDS Integers, Sequences, FiniteSets, TLC

\* ------------------------------------------------------------------ bounds
\* Load-record nodes the target's memory can hold (addresses 1..MaxNodes).
MaxNodes == 2
\* Changes of the target (corruptions, loader updates) in one behaviour.
MaxFaults == 1

\* Steps of one discovery the model runs before it gives up on its return.
MaxSteps == 1100

\* --------------------------------------------------------- program constants
\* constexpr int kMaxDso = 1000
kMaxDso == 1000

\* ------------------------------------------------------------ target process
NodeAddrs == 1..MaxNodes
\* A pointer value: null or the address of a node slot.
Pointers == 0..MaxNodes
\* The non-zero value of ZX_PROP_PROCESS_DEBUG_ADDR (address of r_debug).
DebugAddr == MaxNodes + 1
\* The fields read at an offset from an address.
NodeFields == {"l_addr", "l_next", "l_name"}
Cells == {<<DebugAddr, "r_map">>} \cup (NodeAddrs \X NodeFields)
\* What a cell or string holds when the remote read of it fails.
Unreadable == -1
UnreadableString == "<unreadable>"
\* Path strings a load record can carry; "" is the main executable's.
Names == {"", "/lib/libc.so"}
\* The process display name (ZX_PROP_NAME).
ProcessName == "crasher"
\* Handles a caller can pass to Initialize().
Handles == {1, 2}
\* The load address the loader recorded for the node at address a.
BaseOf(a) == a * 4194304
\* The address of node a's path string.
NamePtrOf(a) == a
\* The two callers that share one reader without synchronization.
Threads == {"T1", "T2"}
\* A thread that has not called Modules(): its position in the call, the
\* locals of InitializeModules(), the length of the list its call returned
\* as the caller found it on return, and whether it ran lines 56-157.
IdleThread ==
    [pc |-> "idle", app_name |-> "", debug_address |-> 0, map |-> 0, i |-> 0,
     seen |-> 0, ran |-> FALSE]

VARIABLES
    initialized_,            \* InitializationStateDcheck
    process_,                \* zx_handle_t
    process_memory_,         \* the accessor, by the handle it is bound to; 0 = null
    initialized_modules_,    \* bool
    modules_,                \* std::vector<Module>
    module_readers_,         \* std::vector<std::unique_ptr<ElfImageReader>>
    process_memory_ranges_,  \* std::vector<std::unique_ptr<ProcessMemoryRange>>
    log,                     \* LOG(ERROR) messages, in order
    queries,                 \* zx_object_get_property calls, in order
    reads,                   \* Read / ReadCString calls on the accessor, in order,
                             \* grouped by the step that issued them: the read of
                             \* r_map, then one group for each loop iteration
    target,                  \* the target process: properties and memory
    faults,                  \* changes of the target so far
    crashed,                 \* a DCHECK failed: the process is gone
    initPc,                  \* position of the Initialize() call in progress
    initArg,                 \* its argument
    initRet,                 \* what the last Initialize() returned
    discPc,                  \* position of discovery: "none" before it is entered,
                             \* "entry" when a DCHECK of lines 53-54 has failed
    calls,                   \* Modules() calls that returned: 0, 1, or 2 for
                             \* two or more
    ret,                     \* what the last Modules() call returned: nothing
                             \* yet, or the reference to modules_
    thr                      \* the callers of Modules() that run as threads of
                             \* their own: position in the call and locals

vars == <<initialized_, process_, process_memory_, initialized_modules_, modules_,
          module_readers_, process_memory_ranges_, log, queries, reads, target,
          faults, crashed, initPc, initArg, initRet, discPc, calls, ret, thr>>

readerVars == <<initialized_, process_, process_memory_, initialized_modules_,
                modules_, module_readers_, process_memory_ranges_, log, queries,
                reads, discPc>>

\* A healthy target whose loader holds a chain of n nodes 1 -> 2 -> ... -> n
\* with the path strings nm[1..n]; node slots above n are not mapped.
HealthyTarget(n, nm) ==
    [nameStatus  |-> "ZX_OK",
     name        |-> ProcessName,
     debugStatus |-> "ZX_OK",
     debugAddr   |-> DebugAddr,
     mem |-> [c \in Cells |->
                IF c[2] = "r_map" THEN (IF n >= 1 THEN 1 ELSE 0)
                ELSE IF c[1] > n THEN Unreadable
                ELSE IF c[2] = "l_addr" THEN BaseOf(c[1])
                ELSE IF c[2] = "l_next" THEN (IF c[1] < n THEN c[1] + 1 ELSE 0)
                ELSE NamePtrOf(c[1])],
     cstr |-> [p \in NodeAddrs |-> IF p > n THEN UnreadableString ELSE nm[p]]]

\* ------------------------------------------------------- remote memory reads
\* ProcessMemory::Read(address + offsetof(field), sizeof(word), &out)
Read(t, address, field) ==
    LET c == <<address, field>>
        v == IF c \in DOMAIN t.mem THEN t.mem[c] ELSE Unreadable
    IN  [ok |-> v # Unreadable, value |-> v]

\* ProcessMemory::ReadCString(address, &out): out is left empty on failure.
ReadCString(t, address) ==
    LET s == IF address \in DOMAIN t.cstr THEN t.cstr[address] ELSE UnreadableString
    IN  [ok |-> s # UnreadableString, value |-> IF s = UnreadableString THEN "" ELSE s]

\* (mutant) The error is not logged.
LogErrorSilent(st, msg) == st

\* LOG(ERROR) << msg
LogError(st, msg) == [st EXCEPT !.log = Append(@, msg)]

\* (mutant) The exit on an error discards what the walk collected.
LogAndReturnDiscard(w, msg) ==
    [w EXCEPT !.log = Append(@, msg), !.pc = "done", !.modules = <<>>,
              !.readers = <<>>, !.ranges = <<>>]

\* (mutant) The error is logged and the function goes on from where it was.
LogAndGoOn(w, msg) == [w EXCEPT !.log = Append(@, msg)]

\* LOG(ERROR) << msg, then leave InitializeModules() (return, or break out of
\* the loop that ends it).
LogAndReturn(w, msg) == [w EXCEPT !.log = Append(@, msg), !.pc = "done"]

\* The record of one remote read: <<what is read, at which address, whether
\* the read succeeded>>.
ReadOf(op, address, field, ok) ==
    <<IF op = "ReadCString" THEN "cstring" ELSE field, address, ok>>

\* The reads one step of discovery issued, in their order, appended to the
\* reads so far.
NoteReads(st, group) == [st EXCEPT !.reads = Append(@, group)]

\* (mutant) The name is the path string even when it is empty.
ModuleNameNoFallback(dsoname, app_name) == dsoname

\* Line 140: module.name = dsoname.empty() ? app_name : dsoname
ModuleName(dsoname, app_name) == IF dsoname = "" THEN app_name ELSE dsoname

\* (mutant) The new Module is put at the front of modules_.
AppendModuleFront(st, memory, app_name, dsoname, base) ==
    LET ranges  == Append(st.ranges, [memory |-> memory])
        readers == Append(st.readers, [range |-> Len(ranges), base |-> base])
        module  == [name   |-> ModuleName(dsoname, app_name),
                    reader |-> Len(readers)]
    IN  [st EXCEPT !.ranges = ranges, !.readers = readers,
                   !.modules = <<module>> \o st.modules]

\* (mutant) Lines 139-153 without line 151: the reader is not handed to
\* module_readers_.
AppendModuleReaderNotOwned(st, memory, app_name, dsoname, base) ==
    LET ranges  == Append(st.ranges, [memory |-> memory])
        module  == [name   |-> ModuleName(dsoname, app_name),
                    reader |-> Len(st.readers) + 1]
    IN  [st EXCEPT !.ranges = ranges, !.modules = Append(st.modules, module)]

\* (mutant) Line 145 initializes the range over no accessor.
AppendModuleUnboundRange(st, memory, app_name, dsoname, base) ==
    LET ranges  == Append(st.ranges, [memory |-> 0])
        readers == Append(st.readers, [range |-> Len(ranges), base |-> base])
        module  == [name   |-> ModuleName(dsoname, app_name),
                    reader |-> Len(readers)]
    IN  [st EXCEPT !.ranges = ranges, !.readers = readers,
                   !.modules = Append(st.modules, module)]

\* Lines 139-153: build the Module, its range and its reader, and append them.
\* A Module refers to its reader, and a reader to its range, by position in
\* the owning vector.
AppendModule(st, memory, app_name, dsoname, base) ==
    LET ranges  == Append(st.ranges, [memory |-> memory])
        readers == Append(st.readers, [range |-> Len(ranges), base |-> base])
        module  == [name   |-> ModuleName(dsoname, app_name),
                    reader |-> Len(readers)]
    IN  [st EXCEPT !.ranges = ranges, !.readers = readers,
                   !.modules = Append(st.modules, module)]

\* (mutant) There is no ceiling.
CeilingNever(i) == FALSE

\* (mutant) The ceiling test is i > kMaxDso.
CeilingOffByOne(i) == i > kMaxDso

\* Line 100, after the increment: ++i >= kMaxDso
CeilingReached(i) == i >= kMaxDso

\* One iteration of the while loop of lines 99-156, from its test to its
\* end. w holds the reader's containers and the locals map, i and app_name;
\* w.pc = "done" once the function has returned.
LoopIteration(t, memory, w) ==
    IF w.map = 0 THEN [w EXCEPT !.pc = "done"]
    ELSE
    LET w0 == [w EXCEPT !.i = @ + 1]
    IN  IF CeilingReached(w0.i)
        THEN LogAndReturn(w0, "possibly circular dso list, terminating")
        ELSE
    LET rb == Read(t, w0.map, "l_addr")
        g1 == <<ReadOf("Read", w0.map, "l_addr", rb.ok)>>
    IN  IF ~rb.ok THEN LogAndReturn(NoteReads(w0, g1), "Read base")
        ELSE
    LET rn == Read(t, w0.map, "l_next")
        g2 == Append(g1, ReadOf("Read", w0.map, "l_next", rn.ok))
    IN  IF ~rn.ok THEN LogAndReturn(NoteReads(w0, g2), "Read next")
        ELSE
    LET ra == Read(t, w0.map, "l_name")
        g3 == Append(g2, ReadOf("Read", w0.map, "l_name", ra.ok))
    IN  IF ~ra.ok THEN LogAndReturn(NoteReads(w0, g3), "Read name address")
        ELSE
    LET rs == ReadCString(t, ra.value)
        g4 == Append(g3, ReadOf("ReadCString", ra.value, "", rs.ok))
        w4 == NoteReads(w0, g4)
        w5 == IF rs.ok THEN w4 ELSE LogError(w4, "ReadCString name")
        w6 == AppendModule(w5, memory, w5.app_name, rs.value, rb.value)
    IN  [w6 EXCEPT !.map = rn.value]

\* (mutant) A failed name query is logged and discovery goes on.
QueryNameIgnoreStatus(t, process, w) ==
    LET w1 == [w EXCEPT !.queries = Append(@, [handle |-> process,
                                               property |-> "ZX_PROP_NAME"])]
    IN  IF t.nameStatus # "ZX_OK"
        THEN [LogError(w1, "zx_object_get_property ZX_PROP_NAME") EXCEPT !.pc = "debug"]
        ELSE [w1 EXCEPT !.app_name = "app:" \o t.name, !.pc = "debug"]

\* (mutant) The process name is not appended to "app:".
QueryNameNoAppend(t, process, w) ==
    LET w1 == [w EXCEPT !.queries = Append(@, [handle |-> process,
                                               property |-> "ZX_PROP_NAME"])]
    IN  IF t.nameStatus # "ZX_OK"
        THEN LogAndReturn(w1, "zx_object_get_property ZX_PROP_NAME")
        ELSE [w1 EXCEPT !.pc = "debug"]

\* Lines 63-74: the process name and the fallback module name.
QueryName(t, process, w) ==
    LET w1 == [w EXCEPT !.queries = Append(@, [handle |-> process,
                                               property |-> "ZX_PROP_NAME"])]
    IN  IF t.nameStatus # "ZX_OK"
        THEN LogAndReturn(w1, "zx_object_get_property ZX_PROP_NAME")
        ELSE [w1 EXCEPT !.app_name = "app:" \o t.name, !.pc = "debug"]

\* (mutant) Lines 79-87 without the status test of line 84: discovery goes on
\* with whatever debug address the target holds.
QueryDebugAddressIgnoreStatus(t, process, w) ==
    LET w1 == [w EXCEPT !.queries = Append(@, [handle |-> process,
                                 property |-> "ZX_PROP_PROCESS_DEBUG_ADDR"])]
    IN  [w1 EXCEPT !.debug_address = t.debugAddr, !.pc = "head"]

\* Lines 79-87: the address of the loader's r_debug.
QueryDebugAddress(t, process, w) ==
    LET w1 == [w EXCEPT !.queries = Append(@, [handle |-> process,
                                 property |-> "ZX_PROP_PROCESS_DEBUG_ADDR"])]
    IN  IF t.debugStatus # "ZX_OK" \/ t.debugAddr = 0
        THEN LogAndReturn(w1, "zx_object_get_property ZX_PROP_PROCESS_DEBUG_ADDR")
        ELSE [w1 EXCEPT !.debug_address = t.debugAddr, !.pc = "head"]

\* Lines 89-98: the head of the link_map chain, and the loop counter.
ReadHead(t, w) ==
    LET rm == Read(t, w.debug_address, "r_map")
        w1 == NoteReads(w, <<ReadOf("Read", w.debug_address, "r_map", rm.ok)>>)
    IN  IF ~rm.ok THEN LogAndReturn(w1, "read link_map")
        ELSE [w1 EXCEPT !.map = rm.value, !.i = 0, !.pc = "loop"]

\* The next step of lines 63-157 from position w.pc.
DiscoverStep(t, process, memory, w) ==
    CASE w.pc = "name"  -> QueryName(t, process, w)
      [] w.pc = "debug" -> QueryDebugAddress(t, process, w)
      [] w.pc = "head"  -> ReadHead(t, w)
      [] w.pc = "loop"  -> LoopIteration(t, memory, w)
      [] OTHER          -> w

\* At most n steps from w, stopping at the function's return.
RECURSIVE RunSteps(_, _, _, _, _)
RunSteps(t, process, memory, w, n) ==
    IF w.pc = "done" \/ n = 0 THEN w
    ELSE IF n = 1 THEN DiscoverStep(t, process, memory, w)
    ELSE RunSteps(t, process, memory,
                  RunSteps(t, process, memory, w, n \div 2), n - (n \div 2))

\* Lines 56-157 of InitializeModules(), after its two DCHECKs, run from entry
\* for at most MaxSteps steps.
DiscoverModules(t, process, memory, st0) ==
    RunSteps(t, process, memory,
             [modules |-> st0.modules, readers |-> st0.readers,
              ranges |-> st0.ranges, log |-> st0.log, queries |-> st0.queries,
              reads |-> st0.reads, app_name |-> "app:", debug_address |-> 0,
              map |-> 0, i |-> 0, pc |-> "name"],
             MaxSteps)

\* The reader's containers and diagnostics as one record, and back.
ReaderState ==
    [modules |-> modules_, readers |-> module_readers_,
     ranges |-> process_memory_ranges_, log |-> log, queries |-> queries,
     reads |-> reads]

\* ------------------------------------------------------------------- actions
\* The reader as its constructor leaves it (lines 22-28), and the bookkeeping
\* of the calls made on it so far: none.
Constructed ==
    /\ initialized_ = "Uninitialized"
    /\ process_ = 0
    /\ process_memory_ = 0
    /\ initialized_modules_ = FALSE
    /\ modules_ = <<>>
    /\ module_readers_ = <<>>
    /\ process_memory_ranges_ = <<>>
    /\ log = <<>>
    /\ queries = <<>>
    /\ reads = <<>>
    /\ faults = 0
    /\ crashed = FALSE
    /\ initPc = "idle"
    /\ initArg = 0
    /\ initRet = "none"
    /\ discPc = "none"
    /\ calls = 0
    /\ ret = "none"
    /\ thr = [t \in Threads |-> IdleThread]

\* A fresh reader and a healthy target.
Init ==
    /\ Constructed
    /\ \E n \in 0..MaxNodes : \E nm \in [1..n -> Names] : target = HealthyTarget(n, nm)

\* A target whose first load record may already have lost its path string
\* when the reader is created: a crashed process is not a healthy one.
DamagedTarget(n, nm, lost) ==
    LET t == HealthyTarget(n, nm)
    IN  [t EXCEPT !.cstr = [p \in DOMAIN t.cstr |->
                               IF p \in lost THEN UnreadableString ELSE t.cstr[p]]]

\* A fresh reader and a target that is healthy or damaged.
InitDamagedTarget ==
    /\ Constructed
    /\ \E n \in 0..MaxNodes : \E nm \in [1..n -> Names] :
          \E lost \in SUBSET ({1} \cap (1..n)) : target = DamagedTarget(n, nm, lost)

\* INITIALIZATION_STATE_SET_INITIALIZING(initialized_): the state must be
\* Uninitialized.
SetInitializing ==
    IF initialized_ = "Uninitialized"
    THEN initialized_' = "Initializing" /\ crashed' = FALSE
    ELSE initialized_' = initialized_ /\ crashed' = TRUE

\* INITIALIZATION_STATE_SET_VALID(initialized_): the state must be Initializing.
SetValid ==
    IF initialized_ = "Initializing"
    THEN initialized_' = "Valid" /\ crashed' = FALSE
    ELSE initialized_' = initialized_ /\ crashed' = TRUE

\* INITIALIZATION_STATE_DCHECK_VALID(initialized_)
DcheckValid == initialized_ = "Valid"

\* Initialize(process), line 31.
InitializeBegin(process) ==
    /\ ~crashed
    /\ initPc = "idle"
    /\ SetInitializing
    /\ initPc' = IF crashed' THEN "idle" ELSE "bind"
    /\ initArg' = IF crashed' THEN initArg ELSE process
    /\ UNCHANGED <<process_, process_memory_, initialized_modules_, modules_,
                   module_readers_, process_memory_ranges_, log, queries, reads,
                   target, faults, initRet, discPc, calls, ret,
                   thr>>

\* Initialize(process), lines 33-36.
InitializeBind ==
    /\ ~crashed
    /\ initPc = "bind"
    /\ process_' = initArg
    /\ process_memory_' = process_'
    /\ initPc' = "valid"
    /\ UNCHANGED <<initialized_, initialized_modules_, modules_, module_readers_,
                   process_memory_ranges_, log, queries, reads, target, faults,
                   crashed, initArg, initRet, discPc, calls, ret,
                   thr>>

\* (mutant) Initialize() returns true without INITIALIZATION_STATE_SET_VALID.
InitializeEndNoValid ==
    /\ ~crashed
    /\ initPc = "valid"
    /\ initPc' = "idle"
    /\ initRet' = "true"
    /\ UNCHANGED <<initialized_, crashed, process_, process_memory_,
                   initialized_modules_, modules_, module_readers_,
                   process_memory_ranges_, log, queries, reads, target, faults,
                   initArg, discPc, calls, ret,
                   thr>>

\* Initialize(process), lines 38-39.
InitializeEnd ==
    /\ ~crashed
    /\ initPc = "valid"
    /\ SetValid
    /\ initPc' = "idle"
    /\ initRet' = IF crashed' THEN initRet ELSE "true"
    /\ UNCHANGED <<process_, process_memory_, initialized_modules_, modules_,
                   module_readers_, process_memory_ranges_, log, queries, reads,
                   target, faults, initArg, discPc, calls, ret,
                   thr>>

\* (mutant) InitializeModules() without line 56: the flag is never set.
InitializeModulesNoFlag ==
    IF initialized_modules_ \/ modules_ # <<>>
    THEN /\ crashed' = TRUE
         /\ discPc' = "entry"
         /\ UNCHANGED <<initialized_modules_, modules_, module_readers_,
                        process_memory_ranges_, log, queries, reads>>
    ELSE \E st \in {DiscoverModules(target, process_, process_memory_, ReaderState)} :
             /\ crashed' = FALSE
             /\ initialized_modules_' = FALSE
             /\ modules_' = st.modules
             /\ module_readers_' = st.readers
             /\ process_memory_ranges_' = st.ranges
             /\ log' = st.log
             /\ queries' = st.queries
             /\ reads' = st.reads
             /\ discPc' = st.pc

\* InitializeModules(), lines 52-157.
InitializeModules ==
    IF initialized_modules_ \/ modules_ # <<>>
    THEN /\ crashed' = TRUE
         /\ discPc' = "entry"
         /\ UNCHANGED <<initialized_modules_, modules_, module_readers_,
                        process_memory_ranges_, log, queries, reads>>
    ELSE \E st \in {DiscoverModules(target, process_, process_memory_, ReaderState)} :
             /\ crashed' = FALSE
             /\ initialized_modules_' = TRUE
             /\ modules_' = st.modules
             /\ module_readers_' = st.readers
             /\ process_memory_ranges_' = st.ranges
             /\ log' = st.log
             /\ queries' = st.queries
             /\ reads' = st.reads
             /\ discPc' = st.pc

\* Modules(), lines 45-49: discover on the first call, then return modules_.
ModulesBody ==
    /\ IF ~initialized_modules_
       THEN InitializeModules
       ELSE /\ crashed' = FALSE
            /\ UNCHANGED <<initialized_modules_, modules_, module_readers_,
                           process_memory_ranges_, log, queries, reads, discPc>>
    /\ IF crashed'
       THEN UNCHANGED <<calls, ret>>
       ELSE /\ calls' = IF calls < 2 THEN calls + 1 ELSE calls
            /\ ret' = "modules_"

\* (mutant) Modules() without INITIALIZATION_STATE_DCHECK_VALID.
ModulesUnchecked ==
    /\ ~crashed
    /\ ModulesBody
    /\ UNCHANGED <<initialized_, process_, process_memory_, target, faults,
                   initPc, initArg, initRet,
                   thr>>

\* Modules(), lines 42-50.
Modules ==
    /\ ~crashed
    /\ IF ~DcheckValid
       THEN /\ crashed' = TRUE
            /\ UNCHANGED <<initialized_modules_, modules_, module_readers_,
                           process_memory_ranges_, log, queries, reads, discPc,
                           calls, ret>>
       ELSE ModulesBody
    /\ UNCHANGED <<initialized_, process_, process_memory_, target, faults,
                   initPc, initArg, initRet,
                   thr>>

\* The target is observed from the moment a reader is attached to it: its
\* changes are followed while the reader is Valid and no call is in progress.
TargetMayChange == ~crashed /\ initialized_ = "Valid" /\ initPc = "idle"

\* The target changes under the reader: a property query starts to fail, or
\* the debug address reads as zero.
TargetPropertyFault(kind) ==
    /\ TargetMayChange
    /\ faults < MaxFaults
    /\ target' = CASE kind = "name"  -> [target EXCEPT !.nameStatus = "ZX_ERR_BAD_HANDLE"]
                   [] kind = "debug" -> [target EXCEPT !.debugStatus = "ZX_ERR_BAD_HANDLE"]
                   [] OTHER          -> [target EXCEPT !.debugAddr = 0]
    /\ target' # target
    /\ faults' = faults + 1
    /\ UNCHANGED <<readerVars, crashed, initPc, initArg, initRet, calls, ret,
                   thr>>

\* A word or a string of the target becomes unreadable.
TargetUnmap ==
    /\ TargetMayChange
    /\ faults < MaxFaults
    /\ \/ \E c \in Cells : target' = [target EXCEPT !.mem[c] = Unreadable]
       \/ \E p \in NodeAddrs : target' = [target EXCEPT !.cstr[p] = UnreadableString]
    /\ target' # target
    /\ faults' = faults + 1
    /\ UNCHANGED <<readerVars, crashed, initPc, initArg, initRet, calls, ret,
                   thr>>

\* The target (or whatever corrupts it) rewrites a chain pointer or a path
\* string.
TargetWrite ==
    /\ TargetMayChange
    /\ faults < MaxFaults
    /\ \/ \E c \in {d \in Cells : d[2] \in {"r_map", "l_next"}} : \E v \in Pointers :
            target' = [target EXCEPT !.mem[c] = v]
       \/ \E p \in NodeAddrs : \E s \in Names : target' = [target EXCEPT !.cstr[p] = s]
    /\ target' # target
    /\ faults' = faults + 1
    /\ UNCHANGED <<readerVars, crashed, initPc, initArg, initRet, calls, ret,
                   thr>>

Next ==
    \/ \E h \in Handles : InitializeBegin(h)
    \/ InitializeBind
    \/ InitializeEnd
    \/ Modules
    \/ \E k \in {"name", "debug", "debugzero"} : TargetPropertyFault(k)
    \/ TargetUnmap
    \/ TargetWrite

Spec == Init /\ [][Next]_vars

\* The same reader, created on a target that may already be damaged.
SpecDamagedTarget == InitDamagedTarget /\ [][Next]_vars

\* --------------------------------------------- two unsynchronized callers
\* Positions of a thread inside lines 63-157.
InDiscovery == {"name", "debug", "head", "loop"}

\* Thread t calls Modules(): line 43.
ThreadCall(t) ==
    /\ ~crashed
    /\ thr[t].pc = "idle"
    /\ IF ~DcheckValid
       THEN crashed' = TRUE /\ thr' = thr
       ELSE crashed' = FALSE /\ thr' = [thr EXCEPT ![t].pc = "check"]
    /\ UNCHANGED <<readerVars, target, faults, initPc, initArg, initRet, calls, ret>>

\* Thread t tests the flag: line 45.
ThreadCheckFlag(t) ==
    /\ ~crashed
    /\ thr[t].pc = "check"
    /\ thr' = [thr EXCEPT ![t].pc = IF ~initialized_modules_ THEN "enter" ELSE "return"]
    /\ UNCHANGED <<readerVars, target, faults, crashed, initPc, initArg, initRet,
                   calls, ret>>

\* Thread t enters InitializeModules(): the DCHECKs of lines 53-54.
ThreadEnter(t) ==
    /\ ~crashed
    /\ thr[t].pc = "enter"
    /\ IF initialized_modules_ \/ modules_ # <<>>
       THEN crashed' = TRUE /\ discPc' = "entry" /\ thr' = thr
       ELSE crashed' = FALSE /\ discPc' = discPc
            /\ thr' = [thr EXCEPT ![t].pc = "flag"]
    /\ UNCHANGED <<initialized_, process_, process_memory_, initialized_modules_,
                   modules_, module_readers_, process_memory_ranges_, log, queries,
                   reads, target, faults, initPc, initArg, initRet, calls, ret>>

\* (mutant) Thread t goes on to discovery without setting the flag.
ThreadSetFlagSkipped(t) ==
    /\ ~crashed
    /\ thr[t].pc = "flag"
    /\ thr' = [thr EXCEPT ![t] = [@ EXCEPT !.pc = "name", !.app_name = "app:",
                                           !.ran = TRUE]]
    /\ UNCHANGED <<readerVars, target, faults, crashed, initPc, initArg, initRet,
                   calls, ret>>

\* Thread t sets the flag, line 56, with the list still to be filled.
ThreadSetFlag(t) ==
    /\ ~crashed
    /\ thr[t].pc = "flag"
    /\ initialized_modules_' = TRUE
    /\ thr' = [thr EXCEPT ![t] = [@ EXCEPT !.pc = "name", !.app_name = "app:",
                                           !.ran = TRUE]]
    /\ UNCHANGED <<initialized_, process_, process_memory_, modules_,
                   module_readers_, process_memory_ranges_, log, queries, reads,
                   discPc, target, faults, crashed, initPc, initArg, initRet,
                   calls, ret>>

\* Thread t takes its next step of lines 63-157 on the shared containers.
ThreadDiscover(t) ==
    /\ ~crashed
    /\ thr[t].pc \in InDiscovery
    /\ \E w \in {DiscoverStep(target, process_, process_memory_,
                    [modules |-> modules_, readers |-> module_readers_,
                     ranges |-> process_memory_ranges_, log |-> log,
                     queries |-> queries, reads |-> reads,
                     app_name |-> thr[t].app_name,
                     debug_address |-> thr[t].debug_address,
                     map |-> thr[t].map, i |-> thr[t].i, pc |-> thr[t].pc])} :
          /\ modules_' = w.modules
          /\ module_readers_' = w.readers
          /\ process_memory_ranges_' = w.ranges
          /\ log' = w.log
          /\ queries' = w.queries
          /\ reads' = w.reads
          /\ discPc' = w.pc
          /\ thr' = [thr EXCEPT ![t] =
                        [@ EXCEPT !.pc = IF w.pc = "done" THEN "return" ELSE w.pc,
                                  !.app_name = w.app_name,
                                  !.debug_address = w.debug_address,
                                  !.map = w.map, !.i = w.i]]
    /\ UNCHANGED <<initialized_, process_, process_memory_, initialized_modules_,
                   target, faults, crashed, initPc, initArg, initRet, calls, ret>>

\* Two threads are in the loop at once: their push_backs of lines 146-152 on
\* the same vectors race, which is undefined behaviour. Besides the outcomes
\* in which the appends happen one after the other (ThreadDiscover), the
\* process may die.
ThreadRaceCrash(t) ==
    /\ ~crashed
    /\ thr[t].pc = "loop"
    /\ \E u \in Threads \ {t} : thr[u].pc = "loop"
    /\ crashed' = TRUE
    /\ UNCHANGED <<readerVars, target, faults, initPc, initArg, initRet, calls,
                   ret, thr>>

\* Thread t returns the reference to modules_, line 49; the caller finds in
\* it what the list holds at that moment.
ThreadReturn(t) ==
    /\ ~crashed
    /\ thr[t].pc = "return"
    /\ thr' = [thr EXCEPT ![t] = [@ EXCEPT !.pc = "returned", !.seen = Len(modules_)]]
    /\ calls' = IF calls < 2 THEN calls + 1 ELSE calls
    /\ ret' = "modules_"
    /\ UNCHANGED <<readerVars, target, faults, crashed, initPc, initArg, initRet>>

\* One reader, initialized by one thread and then shared by two threads that
\* each call Modules() once.
NextRace ==
    \/ \E h \in Handles : InitializeBegin(h)
    \/ InitializeBind
    \/ InitializeEnd
    \/ \E t \in Threads : ThreadCall(t)
    \/ \E t \in Threads : ThreadCheckFlag(t)
    \/ \E t \in Threads : ThreadEnter(t)
    \/ \E t \in Threads : ThreadSetFlag(t)
    \/ \E t \in Threads : ThreadDiscover(t)
    \/ \E t \in Threads : ThreadRaceCrash(t)
    \/ \E t \in Threads : ThreadReturn(t)

SpecRace == Init /\ [][NextRace]_vars

\* -------------------------------------------------------------- properties
\* The step on which discovery runs: the first Modules() call of a Valid reader.
DiscoveryRuns == ~initialized_modules_ /\ initialized_modules_'

\* Sequences of distinct node addresses, the shapes a walk can take.
NodePaths ==
    {c \in UNION {[1..n -> NodeAddrs] : n \in 0..MaxNodes} :
        \A j, k \in DOMAIN c : j # k => c[j] # c[k]}

\* Both property queries of t succeed and its r_map is readable.
AnchorReadable(t) ==
    /\ t.nameStatus = "ZX_OK"
    /\ t.debugStatus = "ZX_OK"
    /\ t.debugAddr # 0
    /\ <<t.debugAddr, "r_map">> \in DOMAIN t.mem
    /\ t.mem[<<t.debugAddr, "r_map">>] # Unreadable

\* The three fields of the node at address a are readable.
NodeReadable(t, a) == \A f \in NodeFields : t.mem[<<a, f>>] # Unreadable

\* The path string of the node at address a is readable.
NameReadable(t, a) ==
    /\ t.mem[<<a, "l_name">>] \in DOMAIN t.cstr
    /\ t.cstr[t.mem[<<a, "l_name">>]] # UnreadableString

\* The walk of t starts with the nodes c, in this order.
WalkStartsWith(t, c) ==
    /\ AnchorReadable(t)
    /\ t.mem[<<t.debugAddr, "r_map">>] = (IF c = <<>> THEN 0 ELSE c[1])
    /\ \A k \in 1..(Len(c) - 1) : t.mem[<<c[k], "l_next">>] = c[k + 1]

\* t holds the uncorrupted chain c: every read of the walk succeeds and the
\* last node's next pointer is null.
IsChain(t, c) ==
    /\ WalkStartsWith(t, c)
    /\ \A k \in DOMAIN c : NodeReadable(t, c[k]) /\ NameReadable(t, c[k])
    /\ c # <<>> => t.mem[<<c[Len(c)], "l_next">>] = 0

\* Descriptor k of the list ms, resolved through the owned readers rs, was
\* built for the node at address a of t.
DescribesNode(ms, rs, k, t, a) ==
    /\ k \in DOMAIN ms
    /\ ms[k].reader \in DOMAIN rs
    /\ rs[ms[k].reader].base = t.mem[<<a, "l_addr">>]

C2_DiscoveryOnce ==
    [][calls >= 1 =>
        /\ modules_' = modules_
        /\ queries' = queries
        /\ reads' = reads
        /\ initialized_modules_ /\ initialized_modules_'
        /\ calls' # calls => ret' = "modules_" /\ ~crashed']_vars

\* A second call has returned the empty list of an aborted discovery, and
\* another the two descriptors collected before the target dropped its chain.
C2_Witness ==
    /\ calls = 2
    /\ ret = "modules_"
    /\ faults >= 1
    /\ \/ modules_ = <<>> /\ Len(log) = 1
       \/ Len(modules_) = 2 /\ IsChain(target, <<>>)

\* The walk of t reaches the last node of c after reading every node before
\* it, path string included, and one of the last node's three fields is
\* unreadable.
FailsAt(t, c) ==
    /\ c # <<>>
    /\ WalkStartsWith(t, c)
    /\ \A k \in 1..(Len(c) - 1) : NodeReadable(t, c[k]) /\ NameReadable(t, c[k])
    /\ ~NodeReadable(t, c[Len(c)])

\* The diagnostics of the three fatal field reads.
FieldReadFailures == {"Read base", "Read next", "Read name address"}

\* C3: when a field read (base, next or name pointer) of the k-th node fails
\* and every earlier read succeeded, the Modules() call that runs discovery
\* returns exactly k - 1 descriptors, those of the first k - 1 nodes in order.
C3_PrefixOnFieldFailure ==
    [][DiscoveryRuns =>
        \A c \in NodePaths : FailsAt(target, c) =>
            /\ ret' = "modules_"
            /\ Len(modules_') = Len(c) - 1
            /\ \A k \in 1..(Len(c) - 1) :
                  DescribesNode(modules_', module_readers_', k, target, c[k])]_vars

\* Discovery stopped at the second node, whose name pointer it could not read,
\* and the reader returned the first node's descriptor alone.
C3_Witness ==
    /\ ret = "modules_"
    /\ FailsAt(target, <<1, 2>>)
    /\ log = <<"Read name address">>
    /\ Len(modules_) = 1
    /\ DescribesNode(modules_, module_readers_, 1, target, 1)

\* Every remote read of the trace rs is the read of r_map.
OnlyHeadRead(rs) ==
    \A g \in DOMAIN rs : \A r \in DOMAIN rs[g] : rs[g][r][1] = "r_map"

\* C4: when the name query fails, or the debug-address query fails or yields
\* zero, or the read of r_map fails, the Modules() call that runs discovery
\* returns an empty vector, does not crash, and reads no field of any node.
C4_AbortsEmpty ==
    [][(DiscoveryRuns /\ ~AnchorReadable(target)) =>
        /\ ret' = "modules_"
        /\ ~crashed'
        /\ modules_' = <<>>
        /\ module_readers_' = <<>>
        /\ OnlyHeadRead(reads')]_vars

\* The read of r_map failed and the reader returned an empty vector.
C4_Witness ==
    /\ ret = "modules_"
    /\ ~crashed
    /\ modules_ = <<>>
    /\ log = <<"read link_map">>
    /\ reads = << <<ReadOf("Read", DebugAddr, "r_map", FALSE)>> >>

\* The walk of t reaches the last node of c, reads its three fields, and fails
\* to read its path string.
NameFailsAt(t, c) ==
    /\ c # <<>>
    /\ WalkStartsWith(t, c)
    /\ \A k \in DOMAIN c : NodeReadable(t, c[k])
    /\ ~NameReadable(t, c[Len(c)])

\* C5: when the path string of the k-th node cannot be read while its three
\* fields can, the k-th descriptor is still appended, for that node and named
\* "app:" + process name, and the walk goes on: it reads the base of the
\* node the next pointer names, or ends normally on a null next pointer.
C5_NameFailureFallsBack ==
    [][DiscoveryRuns =>
        \A c \in NodePaths : NameFailsAt(target, c) =>
            LET k  == Len(c)
                nx == target.mem[<<c[k], "l_next">>]
            IN  /\ DescribesNode(modules_', module_readers_', k, target, c[k])
                /\ modules_'[k].name = "app:" \o target.name
                /\ nx = 0 => Len(modules_') = k /\ discPc' = "done"
                /\ nx # 0 => /\ Len(reads') >= k + 2
                             /\ reads'[k + 2][1][1] = "l_addr"
                             /\ reads'[k + 2][1][2] = nx]_vars

\* The first node's path string could not be read: its descriptor carries the
\* fallback name and the second node's descriptor follows it.
C5_Witness ==
    /\ ret = "modules_"
    /\ NameFailsAt(target, <<1>>)
    /\ log = <<"ReadCString name">>
    /\ Len(modules_) = 2
    /\ modules_[1].name = "app:crasher"
    /\ DescribesNode(modules_, module_readers_, 2, target, 2)

\* The walk of t never ends by itself: every node it reaches is readable,
\* path string included, and a next pointer leads back to a node already
\* visited.
Cyclic(t) ==
    \E c \in NodePaths :
        /\ c # <<>>
        /\ WalkStartsWith(t, c)
        /\ \A k \in DOMAIN c : NodeReadable(t, c[k]) /\ NameReadable(t, c[k])
        /\ t.mem[<<c[Len(c)], "l_next">>] \in {c[k] : k \in DOMAIN c}

\* C6: on a chain that cycles back on itself, with every read succeeding,
\* InitializeModules() returns after fewer than kMaxDso loop iterations and
\* the Modules() call returns a non-empty vector of fewer than kMaxDso
\* descriptors.
C6_CycleTerminates ==
    [][(DiscoveryRuns /\ Cyclic(target)) =>
        /\ discPc' = "done"
        /\ ret' = "modules_"
        /\ Len(reads') - 1 < kMaxDso
        /\ modules_' # <<>>
        /\ Len(modules_') < kMaxDso]_vars

\* Discovery of a cyclic chain has returned, stopped by the ceiling.
C6_Witness ==
    /\ ret = "modules_"
    /\ discPc = "done"
    /\ Cyclic(target)
    /\ log = <<"possibly circular dso list, terminating">>
    /\ Len(modules_) >= 1

\* The diagnostic of the iteration ceiling.
CeilingMessage == "possibly circular dso list, terminating"

\* Discovery has run and its walk was cut short: the last diagnostic is that
\* of a failed field read or of the ceiling.
CutShort ==
    /\ initialized_modules_
    /\ log # <<>>
    /\ log[Len(log)] \in FieldReadFailures \cup {CeilingMessage}

\* C7, as stated: whenever the walk is cut short by a failed base, next or
\* name-pointer read or by the ceiling, the list discovery leaves is non-empty.
C7_AsStated == CutShort => modules_ # <<>>

\* C7, amended: whenever the walk is cut short, InitializeModules() has
\* returned and the list holds one descriptor for each node visited before the
\* cut. After a failed field read that is every loop iteration but the last,
\* so the list is empty exactly when the read failed on the first node
\* visited; after the ceiling it is kMaxDso - 1 descriptors, never empty.
C7_PartialList ==
    CutShort =>
        /\ discPc = "done"
        /\ log[Len(log)] \in FieldReadFailures =>
              /\ Len(modules_) = Len(reads) - 2
              /\ modules_ = <<>> <=> Len(reads) = 2
        /\ log[Len(log)] = CeilingMessage =>
              /\ Len(modules_) = Len(reads) - 1
              /\ Len(modules_) = kMaxDso - 1
              /\ modules_ # <<>>

\* The base of the first node could not be read: the walk was cut short and
\* the reader returned an empty list.
C7_Witness ==
    /\ CutShort
    /\ ret = "modules_"
    /\ log = <<"Read base">>
    /\ Len(reads) = 2
    /\ modules_ = <<>>

\* The name line 140 gives a node whose path string is s, in a process named
\* n: the string itself, or "app:" + n when it is empty or unreadable.
ExpectedName(s, n) == IF s \in {"", UnreadableString} THEN "app:" \o n ELSE s

\* C8: every descriptor discovery appends is named after the path string of
\* the node it was built for when that string is non-empty, and "app:" + the
\* process name otherwise, wherever the node stands in the chain; the chain
\* ["/lib/libc.so", ""] yields ["/lib/libc.so", "app:" + process name].
C8_NameResolution ==
    [][DiscoveryRuns =>
        /\ \A k \in DOMAIN modules_' :
              LET a == reads'[k + 1][1][2]
                  p == target.mem[<<a, "l_name">>]
              IN  /\ DescribesNode(modules_', module_readers_', k, target, a)
                  /\ modules_'[k].name = ExpectedName(target.cstr[p], target.name)
        /\ (/\ IsChain(target, <<1, 2>>)
            /\ target.cstr[target.mem[<<1, "l_name">>]] = "/lib/libc.so"
            /\ target.cstr[target.mem[<<2, "l_name">>]] = "")
           => /\ Len(modules_') = 2
              /\ modules_'[1].name = "/lib/libc.so"
              /\ modules_'[2].name = "app:" \o target.name]_vars

\* The example chain has been discovered: the library under its own path, then
\* the unnamed node under the fallback name.
C8_Witness ==
    /\ ret = "modules_"
    /\ faults = 0
    /\ IsChain(target, <<1, 2>>)
    /\ target.cstr[target.mem[<<2, "l_name">>]] = ""
    /\ Len(modules_) = 2
    /\ modules_[1].name = "/lib/libc.so"
    /\ modules_[2].name = "app:crasher"

\* C9: while the reader is not Valid no step runs discovery, queries or reads
\* the target, or returns a list, and a Modules() call (the only step then
\* that is not a step of Initialize()) is a failed assertion.
C9_OnlyWhileValid ==
    [][initialized_ # "Valid" =>
        /\ (initPc' = initPc => crashed')
        /\ ~initialized_modules_'
        /\ modules_' = <<>>
        /\ queries' = <<>>
        /\ reads' = <<>>
        /\ ret' = "none"
        /\ calls' = 0]_vars

\* Modules() was called in the middle of Initialize(): the assertion failed
\* and nothing was read or returned.
C9_Witness ==
    /\ crashed
    /\ initialized_ = "Initializing"
    /\ ret = "none"
    /\ reads = <<>>
    /\ queries = <<>>

\* C10: the lifecycle state only ever steps Uninitialized -> Initializing ->
\* Valid; Initialize() entered on an Uninitialized reader passes its
\* assertions, and when it returns it returns true with the state Valid; no
\* step leaves Valid.
C10_Lifecycle ==
    [][/\ \/ initialized_' = initialized_
          \/ <<initialized_, initialized_'>> \in
                {<<"Uninitialized", "Initializing">>, <<"Initializing", "Valid">>}
       /\ (initialized_ = "Uninitialized" /\ initPc' # initPc) =>
             ~crashed' /\ initialized_' = "Initializing" /\ initPc' = "bind"
       /\ (initPc = "valid" /\ initPc' # initPc) =>
             ~crashed' /\ initRet' = "true" /\ initialized_' = "Valid"
       /\ initRet' = "true" => initialized_' = "Valid"]_vars

\* Initialize() has returned true and the reader is Valid.
C10_Witness ==
    /\ ~crashed
    /\ initRet = "true"
    /\ initialized_ = "Valid"
    /\ initPc = "idle"
    /\ process_ \in Handles
    /\ process_memory_ = process_

\* The ZX_PROP_PROCESS_DEBUG_ADDR query of t is reached and fails, or yields a
\* null address (line 84).
AnchorLookupFails(t) ==
    /\ t.nameStatus = "ZX_OK"
    /\ t.debugStatus # "ZX_OK" \/ t.debugAddr = 0

\* C11: when the debug-address lookup fails, the discovery logs exactly one
\* diagnostic and returns the empty list, and nothing else changes: no remote
\* memory read is issued, no memory-range view and no ELF reader is created,
\* and the reader stays bound as it was.
C11_AnchorFailureFrame ==
    [][(DiscoveryRuns /\ AnchorLookupFails(target)) =>
        /\ log' = <<"zx_object_get_property ZX_PROP_PROCESS_DEBUG_ADDR">>
        /\ ret' = "modules_"
        /\ modules_' = <<>>
        /\ reads' = <<>>
        /\ process_memory_ranges_' = <<>>
        /\ module_readers_' = <<>>
        /\ Len(queries') = 2
        /\ UNCHANGED <<initialized_, process_, process_memory_, target>>
        /\ ~crashed']_vars

\* A Modules() call has returned after the debug-address query failed with the
\* target still holding a debug address.
C11_Witness ==
    /\ ret = "modules_"
    /\ target.nameStatus = "ZX_OK"
    /\ target.debugStatus # "ZX_OK"
    /\ target.debugAddr # 0
    /\ log = <<"zx_object_get_property ZX_PROP_PROCESS_DEBUG_ADDR">>
    /\ modules_ = <<>>
    /\ reads = <<>>

\* Discovery has run and the ceiling of lines 100-103 ended its walk.
StoppedByCeiling ==
    /\ initialized_modules_
    /\ log # <<>>
    /\ log[Len(log)] = CeilingMessage

\* C12: when the ceiling ends the walk, InitializeModules() has returned and
\* every descriptor collected before the ceiling is kept: the list holds, in
\* visiting order, one descriptor for each of the kMaxDso - 1 nodes visited,
\* each with the base recorded for its node.
C12_CeilingKeepsPrefix ==
    StoppedByCeiling =>
        /\ discPc = "done"
        /\ Len(reads) = kMaxDso
        /\ Len(modules_) = kMaxDso - 1
        /\ \A k \in 1..(kMaxDso - 1) :
              /\ Len(reads[k + 1]) = 4
              /\ modules_[k].reader \in DOMAIN module_readers_
              /\ module_readers_[modules_[k].reader].base = BaseOf(reads[k + 1][1][2])

\* The walk of a two-node cycle was ended by the ceiling and the reader
\* returned the descriptors of nodes 1, 2, 1, ..., 1.
C12_Witness ==
    /\ StoppedByCeiling
    /\ ret = "modules_"
    /\ Len(modules_) = kMaxDso - 1
    /\ module_readers_[modules_[1].reader].base = BaseOf(1)
    /\ module_readers_[modules_[2].reader].base = BaseOf(2)
    /\ module_readers_[modules_[kMaxDso - 1].reader].base = BaseOf(1)

C17_BoundOnce ==
    [][initRet = "true" =>
        /\ process_' = process_
        /\ process_memory_' = process_memory_
        /\ \A k \in DOMAIN queries' : queries'[k].handle = process_
        /\ \A k \in DOMAIN process_memory_ranges_' :
              process_memory_ranges_'[k].memory = process_memory_]_vars

\* A reader bound to handle 2 has run discovery and answered a second call:
\* it is still bound to handle 2, and so are its two ranges.
C17_Witness ==
    /\ calls = 2
    /\ initRet = "true"
    /\ process_ = 2
    /\ process_memory_ = 2
    /\ Len(process_memory_ranges_) = 2
    /\ process_memory_ranges_[1].memory = 2
    /\ process_memory_ranges_[2].memory = 2
    /\ Len(queries) = 2

\* C18: whatever the target's memory holds, the list never has more than
\* kMaxDso - 1 = 999 descriptors: the ceiling test runs before the node is
\* read, so no more than kMaxDso - 1 nodes are ever read or appended.
C18_AtMost999 ==
    /\ kMaxDso - 1 = 999
    /\ Len(modules_) <= kMaxDso - 1
    /\ Len(module_readers_) <= kMaxDso - 1
    /\ Len(reads) - 1 <= kMaxDso - 1

\* A walk that never ends by itself has filled the list to its largest size:
\* 999 descriptors from 999 nodes read.
C18_Witness ==
    /\ ret = "modules_"
    /\ Len(modules_) = 999
    /\ Len(reads) - 1 = 999
    /\ Len(reads[Len(reads)]) = 4

\* C19: for a single-threaded caller the two DCHECKs at the entry of
\* InitializeModules() never fail: whenever the flag is false the descriptor,
\* reader and range lists are all empty, so a Modules() call on a Valid reader
\* either skips discovery or enters it with the flag false and the list
\* empty, and in both cases completes without a failed assertion.
C19_EntryAssertionsHold ==
    /\ ~initialized_modules_ =>
          /\ modules_ = <<>>
          /\ module_readers_ = <<>>
          /\ process_memory_ranges_ = <<>>
          /\ discPc = "none"
    /\ discPc # "entry"

\* Discovery was entered once, kept the one descriptor it had collected when
\* a next-pointer read failed, and a second Modules() call has returned
\* without entering it again.
C19_Witness ==
    /\ ~crashed
    /\ calls = 2
    /\ initialized_modules_
    /\ log = <<"Read next">>
    /\ Len(modules_) = 1

\* The order in which one loop iteration issues its remote reads.
FieldOrder == <<"l_addr", "l_next", "l_name", "cstring">>

\* The read group g of one loop iteration follows FieldOrder from its start,
\* reads the three fields of one node, and every read that is followed by
\* another one succeeded.
GroupInOrder(g) ==
    /\ Len(g) \in 1..4
    /\ \A j \in DOMAIN g :
          /\ g[j][1] = FieldOrder[j]
          /\ j <= 3 => g[j][2] = g[1][2]
          /\ j < Len(g) => g[j][3]

\* The reads of a discovery are the read of r_map, then one group in order
\* for each node visited; a failed r_map read, or a group ended by a failed
\* field read, is the last read of the discovery.
ReadsInOrder ==
    /\ reads # <<>> =>
          /\ Len(reads[1]) = 1
          /\ reads[1][1][1] = "r_map"
          /\ ~reads[1][1][3] => Len(reads) = 1
    /\ \A k \in 2..Len(reads) :
          /\ GroupInOrder(reads[k])
          /\ Len(reads[k]) < 4 =>
                /\ ~reads[k][Len(reads[k])][3]
                /\ k = Len(reads)

NameStringFailures(rs) ==
    {k \in 2..Len(rs) : Len(rs[k]) = 4 /\ ~rs[k][4][3]}

\* The discovery that issued the queries qs and the reads rs on target t did
\* not walk the chain to a null next pointer: a property query failed, the
\* r_map read failed, the last iteration ended at a failed field read, or the
\* last node read has a next pointer that is not null.
StoppedEarly(t, qs, rs) ==
    \/ t.nameStatus # "ZX_OK"
    \/ t.debugStatus # "ZX_OK" \/ t.debugAddr = 0
    \/ rs = <<>>
    \/ ~rs[1][1][3]
    \/ Len(rs) >= 2 /\ LET last == rs[Len(rs)]
                       IN  Len(last) < 4 \/ t.mem[<<last[1][2], "l_next">>] # 0

\* C16: every failure is reported and none is propagated: the discovery logs
\* exactly one diagnostic for each failed name-string read plus exactly one
\* more if it stopped early, none when it walked the chain to a null next
\* pointer without a failure, and the Modules() call returns the list in
\* every case.
C16_OneDiagnosticPerFailure ==
    [][DiscoveryRuns =>
        /\ Len(log') = Cardinality(NameStringFailures(reads'))
                         + (IF StoppedEarly(target, queries', reads') THEN 1 ELSE 0)
        /\ Cardinality({j \in DOMAIN log' : log'[j] = "ReadCString name"})
              = Cardinality(NameStringFailures(reads'))
        /\ ret' = "modules_"
        /\ ~crashed']_vars

\* A discovery has logged two diagnostics, one for the unreadable name string
\* of the first node and one for the unreadable base that stopped it at the
\* second, and Modules() has returned the one descriptor collected.
C16_Witness ==
    /\ ret = "modules_"
    /\ ~crashed
    /\ log = <<"ReadCString name", "Read base">>
    /\ Len(modules_) = 1
    /\ Len(reads) = 3

\* C13: two threads that call Modules() for the first time on one Valid
\* reader are not kept apart by anything. Line 56 sets the flag before the
\* list is filled: whenever a thread is inside lines 63-157 the flag already
\* reads true, so the other thread's test of line 45 sends it straight to
\* the return; and what a returned caller found is never more than the list
\* holds later. The witness is the bad interleaving itself.
C13_FlagSetBeforeFill ==
    \A t \in Threads :
        /\ thr[t].pc \in InDiscovery => initialized_modules_
        /\ thr[t].pc \in {"return", "returned"} => initialized_modules_
        /\ thr[t].pc = "returned" => thr[t].seen <= Len(modules_)

\* Both calls have returned; thread T2 never ran discovery, found the flag
\* set, and returned a list shorter than the one thread T1 went on to fill.
C13_Witness ==
    /\ ~crashed
    /\ thr["T1"].pc = "returned"
    /\ thr["T2"].pc = "returned"
    /\ thr["T1"].ran
    /\ ~thr["T2"].ran
    /\ thr["T2"].seen < Len(modules_)
    /\ thr["T1"].seen = Len(modules_)

====
